---- MODULE Spec2Model ----
(***************************************************************************)
(* State machine of the BrowserGrid component                              *)
(* (src/components/BrowserGrid.tsx, first variant, lines 1-399): the frame *)
(* pool, the toolbar flags, the timer handles kept in timeoutsRef and the  *)
(* timers that are live in the host's timer table.                         *)
(*                                                                         *)
(* Every handler and every effect is one atomic action: React commits the  *)
(* state updates a handler queues before the next event is handled, and an *)
(* effect runs right after the render whose dependency changed, so the     *)
(* `frames` a handler or an effect closes over is the committed `frames`.  *)
(***************************************************************************)
EXTENDS Integers, Sequences, FiniteSets, TLC

\* Cap of a frame's reload counter `key`.
MaxKey == 1

\* Pool sizes explored (App renders count = 10).
Counts == {1, 2}
\* URL strings explored: the empty string and a non-empty one.
Urls == {"", "a.com"}
\* Values of the loadingDelay select that are explored (ms).
Delays == {200, 800}
\* Ids a per-frame handler is called with; 2 is a valid id of no pool explored.
Ids == {0, 1, 2}

VARIABLES
    count,        \* prop `count`
    masterUrl,    \* prop `url`
    frames,       \* useState<FrameData[]>: frames[i].id = i - 1
    isSyncing,    \* useState(true)
    ghostMode,    \* useState(false)
    loadingDelay, \* useState(800)
    timeoutsRef,  \* useRef: the handles pushed by scheduleFrames
    timers,       \* the host's timer table: timeouts set and neither fired nor cleared
    elapsed,      \* time since the last scheduleFrames call (ms)
    sidGen,       \* which of two disjoint sets of tokens the session ids are from
    lastCall,     \* the last step, when it updated the frames in the master URL
                  \* effect, ran the initialize effect or its cleanup, or ran
                  \* handleRefreshAll: which one, and whether it cleared a
                  \* timeout that was live
    mounted,      \* the component is mounted: its handlers and effects can run
    iframe        \* one <iframe> element: the arguments of its getDisplayUrl
                  \* call and, once rendered, its src and sandbox attributes

vars == <<count, masterUrl, frames, isSyncing, ghostMode, loadingDelay,
          timeoutsRef, timers, elapsed, sidGen, lastCall, mounted, iframe>>

Range(s) == {s[i] : i \in DOMAIN s}

\* .map(f => f.id): the ids of a list of frames, in array order
MapIds(fs) == [i \in DOMAIN fs |-> fs[i].id]

\* generateSessionId, called for frame k.  Every call site generates the ids
\* of all frames at once, so the random ids are modelled as tokens that differ
\* from each other and from every id the pool held before the call: the
\* tokens of generation `gen`.
generateSessionId(gen, k) == <<gen, k>>

\* Variant of InitialFrames that numbers the frames from 1
InitialFrames_OneBased(n, gen) ==
    [i \in 1..n |-> [id |-> i,
                     currentUrl |-> "",
                     key |-> 0,
                     isLocked |-> FALSE,
                     status |-> "idle",
                     sessionId |-> generateSessionId(gen, i)]]

\* The array built by the initialize effect for a pool of n frames
InitialFrames(n, gen) ==
    [i \in 1..n |-> [id |-> i - 1,
                     currentUrl |-> "",
                     key |-> 0,
                     isLocked |-> FALSE,
                     status |-> "idle",
                     sessionId |-> generateSessionId(gen, i)]]

\* The last step ran another handler, or the timeout callback
NoCall == [by |-> "none", cancelled |-> FALSE]

\* An <iframe> that is to be rendered with the given arguments: a string is
\* the sequence of its characters, the session id and the value of Date.now()
\* are one element each
Element(urlStr, sessionId, now) ==
    [urlStr |-> urlStr, sessionId |-> sessionId, now |-> now,
     src |-> <<>>, sandbox |-> <<>>, rendered |-> FALSE]

\* The element the state machine of the pool does not look at
NoElement == Element(<<>>, "", "")

Init ==
    /\ count = 2
    /\ masterUrl = ""
    /\ frames = InitialFrames(2, 0)
    /\ isSyncing = TRUE
    /\ ghostMode = FALSE
    /\ loadingDelay = 800
    /\ timeoutsRef = <<>>
    /\ timers = {}
    /\ elapsed = 0
    /\ sidGen = 0
    /\ lastCall = NoCall
    /\ mounted = TRUE
    /\ iframe = NoElement

----------------------------------------------------------------------------
\* Timers

\* Variant of clearTimeouts that empties timeoutsRef without clearing the timeouts
clearTimeouts_KeepsLive(tm, ref) == tm

\* clearTimeouts: clearTimeout on every handle of timeoutsRef; what stays live
\* in the timer table
clearTimeouts(tm, ref) == tm \ Range(ref)

\* Variant of NewTimeouts that delays by the frame's id, not its list position
NewTimeouts_ById(ids, delay) ==
    [i \in 1..Len(ids) |-> [frameId |-> ids[i],
                            index |-> i - 1,
                            delay |-> delay,
                            due |-> ids[i] * delay,
                            age |-> 0]]

\* The handles scheduleFrames creates: one setTimeout per list position, with
\* delay index * loadingDelay.  `age` counts the scheduleFrames calls made
\* since the timer was set (0: set by the most recent call).
NewTimeouts(ids, delay) ==
    [i \in 1..Len(ids) |-> [frameId |-> ids[i],
                            index |-> i - 1,
                            delay |-> delay,
                            due |-> (i - 1) * delay,
                            age |-> 0]]

\* A timer that survives a scheduleFrames call, seen from the new call time
Rebased(t, now) ==
    [t EXCEPT !.due = IF t.due > now THEN t.due - now ELSE 0, !.age = t.age + 1]

\* Variant of scheduleFrames that returns at once when the list is empty
scheduleFrames_SkipsEmpty(ids, delay, caller) ==
    IF ids = <<>>
    THEN /\ lastCall' = [by |-> caller, cancelled |-> FALSE]
         /\ UNCHANGED <<timers, timeoutsRef, elapsed>>
    ELSE /\ timers' = {Rebased(t, elapsed) : t \in clearTimeouts(timers, timeoutsRef)}
                      \cup Range(NewTimeouts(ids, delay))
         /\ timeoutsRef' = NewTimeouts(ids, delay)
         /\ elapsed' = 0
         /\ lastCall' = [by |-> caller,
                         cancelled |-> clearTimeouts(timers, timeoutsRef) # timers]

\* scheduleFrames(framesToSchedule), called by `caller` in a render whose
\* loadingDelay is `delay`
scheduleFrames(ids, delay, caller) ==
    /\ timers' = {Rebased(t, elapsed) : t \in clearTimeouts(timers, timeoutsRef)}
                 \cup Range(NewTimeouts(ids, delay))
    /\ timeoutsRef' = NewTimeouts(ids, delay)
    /\ elapsed' = 0
    /\ lastCall' = [by |-> caller,
                    cancelled |-> clearTimeouts(timers, timeoutsRef) # timers]

\* The host runs timeouts in the order of their due time, and timeouts due at
\* the same time in the order they were set
Earlier(u, t) ==
    \/ u.due < t.due
    \/ /\ u.due = t.due
       /\ \/ u.age > t.age
          \/ u.age = t.age /\ u.index < t.index

\* Variant of Activate that makes the frame active and keeps its key
Activate_KeepsKey(f) == [f EXCEPT !.status = "active"]

\* The update the timeout callback applies to its frame
Activate(f) == [f EXCEPT !.status = "active", !.key = f.key + 1]

\* The timeout callback: prev.map(f => f.id === frameId ? activated : f)
TimeoutCallback(fs, frameId) ==
    [i \in DOMAIN fs |-> IF fs[i].id = frameId THEN Activate(fs[i]) ELSE fs[i]]

\* Time passes until the next live timeout is due, and it fires
Fire(t) ==
    /\ t \in timers
    /\ \A u \in timers : ~Earlier(u, t)
    /\ \A i \in DOMAIN frames : frames[i].id = t.frameId => frames[i].key < MaxKey
    /\ frames' = TimeoutCallback(frames, t.frameId)
    /\ timers' = timers \ {t}
    /\ elapsed' = IF t.due > elapsed THEN t.due ELSE elapsed
    /\ lastCall' = NoCall
    /\ UNCHANGED <<count, masterUrl, isSyncing, ghostMode, loadingDelay,
                   timeoutsRef, sidGen>>

----------------------------------------------------------------------------
\* Initialize effect, deps [count]

\* Variant of SetCount whose effect has no cleanup: the handles are dropped,
\* the timeouts keep running
SetCount_NoCleanup(n) ==
    /\ n # count
    /\ count' = n
    /\ frames' = InitialFrames(n, 1 - sidGen)
    /\ sidGen' = 1 - sidGen
    /\ timeoutsRef' = <<>>
    /\ lastCall' = [by |-> "initialize", cancelled |-> FALSE]
    /\ UNCHANGED <<masterUrl, isSyncing, ghostMode, loadingDelay, elapsed, timers>>

\* The cleanup of the previous run (clearTimeouts), then the effect body
SetCount(n) ==
    /\ n # count
    /\ count' = n
    /\ frames' = InitialFrames(n, 1 - sidGen)
    /\ sidGen' = 1 - sidGen
    /\ timers' = clearTimeouts(timers, timeoutsRef)
    /\ timeoutsRef' = <<>>
    /\ lastCall' = [by |-> "initialize",
                    cancelled |-> clearTimeouts(timers, timeoutsRef) # timers]
    /\ UNCHANGED <<masterUrl, isSyncing, ghostMode, loadingDelay, elapsed>>

\* Variant of Unmount whose cleanup leaves the timeouts running
Unmount_NoCleanup ==
    /\ mounted
    /\ mounted' = FALSE
    /\ lastCall' = [by |-> "unmount", cancelled |-> FALSE]
    /\ UNCHANGED <<count, masterUrl, frames, isSyncing, ghostMode, loadingDelay,
                   timeoutsRef, timers, elapsed, sidGen, iframe>>

\* The component unmounts: the cleanup of the initialize effect runs
\* (return () => clearTimeouts()) and no handler or effect runs any more
Unmount ==
    /\ mounted
    /\ mounted' = FALSE
    /\ timers' = clearTimeouts(timers, timeoutsRef)
    /\ timeoutsRef' = <<>>
    /\ lastCall' = [by |-> "unmount",
                    cancelled |-> clearTimeouts(timers, timeoutsRef) # timers]
    /\ UNCHANGED <<count, masterUrl, frames, isSyncing, ghostMode, loadingDelay,
                   elapsed, sidGen, iframe>>

----------------------------------------------------------------------------
\* Master URL effect, deps [masterUrl, isSyncing, loadingDelay]

IsUnlocked(f) == ~f.isLocked

\* Variant of SyncFrame that overwrites locked frames too
SyncFrame_IgnoresLock(f, url) == [f EXCEPT !.currentUrl = url, !.status = "scheduled"]

\* prev.map(f => f.isLocked ? f : {...f, currentUrl: masterUrl, status: 'scheduled'})
SyncFrame(f, url) ==
    IF f.isLocked THEN f ELSE [f EXCEPT !.currentUrl = url, !.status = "scheduled"]

\* Variant of ResetFrame that clears the URL and keeps the status
ResetFrame_KeepsStatus(f) ==
    IF f.isLocked THEN f ELSE [f EXCEPT !.currentUrl = ""]

\* Variant of ResetFrame that makes the frame idle and keeps its URL
ResetFrame_KeepsUrl(f) ==
    IF f.isLocked THEN f ELSE [f EXCEPT !.status = "idle"]

\* prev.map(f => f.isLocked ? f : {...f, currentUrl: '', status: 'idle'})
ResetFrame(f) ==
    IF f.isLocked THEN f ELSE [f EXCEPT !.currentUrl = "", !.status = "idle"]

\* Variant of unlockedIds that lists every frame
unlockedIds_All(fs) == MapIds(fs)

\* frames.filter(f => !f.isLocked).map(f => f.id)
unlockedIds(fs) == MapIds(SelectSeq(fs, IsUnlocked))

\* The effect body, run in the render whose masterUrl, isSyncing and
\* loadingDelay are url, sync and delay
MasterUrlEffect(url, sync, delay, caller) ==
    IF sync /\ url # ""
    THEN /\ frames' = [i \in DOMAIN frames |-> SyncFrame(frames[i], url)]
         /\ scheduleFrames(unlockedIds(frames), delay, caller)
    ELSE IF url = ""
    THEN /\ frames' = [i \in DOMAIN frames |-> ResetFrame(frames[i])]
         /\ lastCall' = [by |-> caller, cancelled |-> FALSE]
         /\ UNCHANGED <<timeoutsRef, timers, elapsed>>
    ELSE /\ lastCall' = NoCall
         /\ UNCHANGED <<frames, timeoutsRef, timers, elapsed>>

\* The prop `url` changes
SetMasterUrl(u) ==
    /\ u # masterUrl
    /\ masterUrl' = u
    /\ MasterUrlEffect(u, isSyncing, loadingDelay, "setMasterUrl")
    /\ UNCHANGED <<count, isSyncing, ghostMode, loadingDelay, sidGen>>

\* The parent sets the prop `url` to the value it has (App.handleLaunch with
\* the URL that is active: setActiveUrl bails out): no dependency of the
\* master URL effect changes, and the effect does not run
SetMasterUrlSame(u) ==
    /\ u = masterUrl
    /\ masterUrl' = u
    /\ lastCall' = NoCall
    /\ UNCHANGED <<count, frames, isSyncing, ghostMode, loadingDelay,
                   timeoutsRef, timers, elapsed, sidGen>>

\* Variant of SetIsSyncing whose effect does not depend on isSyncing
SetIsSyncing_FlagOnly ==
    /\ isSyncing' = ~isSyncing
    /\ lastCall' = NoCall
    /\ UNCHANGED <<count, masterUrl, frames, ghostMode, loadingDelay, timeoutsRef,
                   timers, elapsed, sidGen>>

\* syncToggle onChange: setIsSyncing(e.target.checked)
SetIsSyncing ==
    /\ isSyncing' = ~isSyncing
    /\ MasterUrlEffect(masterUrl, ~isSyncing, loadingDelay, "setIsSyncing")
    /\ UNCHANGED <<count, masterUrl, ghostMode, loadingDelay, sidGen>>

\* Variant of SetLoadingDelay whose effect does not depend on loadingDelay
SetLoadingDelay_StateOnly(d) ==
    /\ d # loadingDelay
    /\ loadingDelay' = d
    /\ lastCall' = NoCall
    /\ UNCHANGED <<count, masterUrl, frames, isSyncing, ghostMode, timeoutsRef,
                   timers, elapsed, sidGen>>

\* loadingDelay select onChange: setLoadingDelay(Number(e.target.value))
SetLoadingDelay(d) ==
    /\ d # loadingDelay
    /\ loadingDelay' = d
    /\ MasterUrlEffect(masterUrl, isSyncing, d, "setLoadingDelay")
    /\ UNCHANGED <<count, masterUrl, isSyncing, ghostMode, sidGen>>

----------------------------------------------------------------------------
\* Ghost mode effect, deps [ghostMode]

\* Variant of GhostFrame that regenerates the session id and keeps the key
GhostFrame_KeepsKey(f, sid) == [f EXCEPT !.sessionId = sid]

\* prev.map(f => ({...f, sessionId: generateSessionId(), key: f.key + 1}))
GhostFrame(f, sid) == [f EXCEPT !.sessionId = sid, !.key = f.key + 1]

\* Ghost mode button: setGhostMode(!ghostMode), then the effect
SetGhostMode ==
    /\ ghostMode' = ~ghostMode
    /\ IF ~ghostMode
       THEN /\ \A i \in DOMAIN frames : frames[i].key < MaxKey
            /\ frames' = [i \in DOMAIN frames |->
                             GhostFrame(frames[i], generateSessionId(1 - sidGen, i))]
            /\ sidGen' = 1 - sidGen
       ELSE UNCHANGED <<frames, sidGen>>
    /\ lastCall' = NoCall
    /\ UNCHANGED <<count, masterUrl, isSyncing, loadingDelay, timeoutsRef,
                   timers, elapsed>>

----------------------------------------------------------------------------
\* Handlers

\* Variant of RefreshFrame that also activates the frame, as the timeout
\* callback does
RefreshFrame_Activates(f) == [f EXCEPT !.key = f.key + 1, !.status = "active"]

\* handleRefresh(id): {...f, key: f.key + 1}
RefreshFrame(f) == [f EXCEPT !.key = f.key + 1]

\* Variant of handleRefresh that takes the id modulo the pool size
handleRefresh_Wraps(id) ==
    /\ \A i \in DOMAIN frames : frames[i].id = id % count => frames[i].key < MaxKey
    /\ frames' = [i \in DOMAIN frames |->
                     IF frames[i].id = id % count
                     THEN RefreshFrame(frames[i]) ELSE frames[i]]
    /\ lastCall' = NoCall
    /\ UNCHANGED <<count, masterUrl, isSyncing, ghostMode, loadingDelay,
                   timeoutsRef, timers, elapsed, sidGen>>

handleRefresh(id) ==
    /\ \A i \in DOMAIN frames : frames[i].id = id => frames[i].key < MaxKey
    /\ frames' = [i \in DOMAIN frames |->
                     IF frames[i].id = id THEN RefreshFrame(frames[i]) ELSE frames[i]]
    /\ lastCall' = NoCall
    /\ UNCHANGED <<count, masterUrl, isSyncing, ghostMode, loadingDelay,
                   timeoutsRef, timers, elapsed, sidGen>>

\* Variant of Refreshable that takes a locked frame only when it is active
Refreshable_ActiveOnly(f) ==
    f.currentUrl # "" /\ (~f.isLocked \/ f.status = "active")

\* f.currentUrl && (!f.isLocked || f.status !== 'idle')
Refreshable(f) == f.currentUrl # "" /\ (~f.isLocked \/ f.status # "idle")

\* frames.filter(...).map(f => f.id)
framesToRefresh(fs) == MapIds(SelectSeq(fs, Refreshable))

\* Variant of RegenerateIds that bumps the key with the session id, as the
\* ghost mode effect does
RegenerateIds_BumpsKey(fs, ghost, gen) ==
    IF ghost
    THEN [i \in DOMAIN fs |-> [fs[i] EXCEPT !.sessionId = generateSessionId(gen, i),
                                            !.key = fs[i].key + 1]]
    ELSE fs

\* Variant of RegenerateIds that leaves the locked frames their session ids
RegenerateIds_Unlocked(fs, ghost, gen) ==
    IF ghost
    THEN [i \in DOMAIN fs |-> IF fs[i].isLocked
                              THEN fs[i]
                              ELSE [fs[i] EXCEPT !.sessionId = generateSessionId(gen, i)]]
    ELSE fs

\* In Ghost Mode: prev.map(f => ({...f, sessionId: generateSessionId()}))
RegenerateIds(fs, ghost, gen) ==
    IF ghost
    THEN [i \in DOMAIN fs |-> [fs[i] EXCEPT !.sessionId = generateSessionId(gen, i)]]
    ELSE fs

\* Variant of MarkScheduled that leaves the locked frames as they are, as the
\* master URL effect does
MarkScheduled_Unlocked(fs, ids) ==
    [i \in DOMAIN fs |-> IF fs[i].id \in Range(ids) /\ ~fs[i].isLocked
                         THEN [fs[i] EXCEPT !.status = "scheduled"]
                         ELSE fs[i]]

\* prev.map(f => framesToRefresh.includes(f.id) ? {...f, status: 'scheduled'} : f)
MarkScheduled(fs, ids) ==
    [i \in DOMAIN fs |-> IF fs[i].id \in Range(ids)
                         THEN [fs[i] EXCEPT !.status = "scheduled"]
                         ELSE fs[i]]

\* handleRefreshAll()
handleRefreshAll ==
    /\ frames' = MarkScheduled(RegenerateIds(frames, ghostMode, 1 - sidGen),
                               framesToRefresh(frames))
    /\ sidGen' = IF ghostMode THEN 1 - sidGen ELSE sidGen
    /\ scheduleFrames(framesToRefresh(frames), loadingDelay, "handleRefreshAll")
    /\ UNCHANGED <<count, masterUrl, isSyncing, ghostMode, loadingDelay>>

\* Variant of EditFrame that also bumps the key
EditFrame_BumpsKey(f, newUrl) ==
    [f EXCEPT !.currentUrl = newUrl, !.isLocked = TRUE, !.status = "active",
              !.key = f.key + 1]

\* Variant of EditFrame that starts the edited frame at key 0
EditFrame_ResetsKey(f, newUrl) ==
    [f EXCEPT !.currentUrl = newUrl, !.isLocked = TRUE, !.status = "active",
              !.key = 0]

\* {...f, currentUrl: newUrl, isLocked: true, status: 'active'}
EditFrame(f, newUrl) ==
    [f EXCEPT !.currentUrl = newUrl, !.isLocked = TRUE, !.status = "active"]

\* Variant of handleUrlChange that clears the pending timeouts
handleUrlChange_ClearsTimeouts(id, newUrl) ==
    /\ frames' = [i \in DOMAIN frames |->
                     IF frames[i].id = id THEN EditFrame(frames[i], newUrl) ELSE frames[i]]
    /\ timers' = clearTimeouts(timers, timeoutsRef)
    /\ timeoutsRef' = <<>>
    /\ lastCall' = NoCall
    /\ UNCHANGED <<count, masterUrl, isSyncing, ghostMode, loadingDelay,
                   elapsed, sidGen>>

\* handleUrlChange(id, newUrl)
handleUrlChange(id, newUrl) ==
    /\ frames' = [i \in DOMAIN frames |->
                     IF frames[i].id = id THEN EditFrame(frames[i], newUrl) ELSE frames[i]]
    /\ lastCall' = NoCall
    /\ UNCHANGED <<count, masterUrl, isSyncing, ghostMode, loadingDelay,
                   timeoutsRef, timers, elapsed, sidGen>>

\* Variant of LockToggled that locks and never unlocks
LockToggled_Locks(f) == [f EXCEPT !.isLocked = TRUE]

\* toggleLock(id): {...f, isLocked: !f.isLocked}
LockToggled(f) == [f EXCEPT !.isLocked = ~f.isLocked]

\* Variant of toggleLock that makes the frame idle when it unlocks it
toggleLock_Unschedules(id) ==
    /\ frames' = [i \in DOMAIN frames |->
                     IF frames[i].id = id
                     THEN [LockToggled(frames[i]) EXCEPT
                              !.status = IF frames[i].isLocked THEN "idle" ELSE @]
                     ELSE frames[i]]
    /\ lastCall' = NoCall
    /\ UNCHANGED <<count, masterUrl, isSyncing, ghostMode, loadingDelay,
                   timeoutsRef, timers, elapsed, sidGen>>

toggleLock(id) ==
    /\ frames' = [i \in DOMAIN frames |->
                     IF frames[i].id = id THEN LockToggled(frames[i]) ELSE frames[i]]
    /\ lastCall' = NoCall
    /\ UNCHANGED <<count, masterUrl, isSyncing, ghostMode, loadingDelay,
                   timeoutsRef, timers, elapsed, sidGen>>

----------------------------------------------------------------------------

\* A prop change, a handler or an effect: it runs while the component is mounted
Rendered(A) == mounted /\ A /\ UNCHANGED <<mounted, iframe>>

\* A timeout callback: the host runs it whether the component is mounted or not
Hosted(A) == A /\ UNCHANGED <<mounted, iframe>>

Next ==
    \/ \E n \in Counts : Rendered(SetCount(n))
    \/ \E u \in Urls : Rendered(SetMasterUrl(u))
    \/ \E u \in Urls : Rendered(SetMasterUrlSame(u))
    \/ Rendered(SetIsSyncing)
    \/ \E d \in Delays : Rendered(SetLoadingDelay(d))
    \/ Rendered(SetGhostMode)
    \/ \E id \in Ids : Rendered(handleRefresh(id))
    \/ Rendered(handleRefreshAll)
    \/ \E id \in Ids, u \in Urls : Rendered(handleUrlChange(id, u))
    \/ \E id \in Ids : Rendered(toggleLock(id))
    \/ \E t \in timers : Hosted(Fire(t))
    \/ Unmount

Spec == Init /\ [][Next]_vars

----------------------------------------------------------------------------
\* Rendering of one <iframe>: getDisplayUrl and getSandboxRules

\* Longest URL body (the part after the scheme) a frame is rendered with
MaxBody == 2

\* String.prototype.trim: white space is removed at both ends
RECURSIVE trimStart(_)
trimStart(str) ==
    IF str # <<>> /\ Head(str) = " " THEN trimStart(Tail(str)) ELSE str

RECURSIVE trimEnd(_)
trimEnd(str) ==
    IF str # <<>> /\ str[Len(str)] = " "
    THEN trimEnd(SubSeq(str, 1, Len(str) - 1))
    ELSE str

trim(str) == trimEnd(trimStart(str))

\* String.prototype.startsWith and String.prototype.includes
startsWith(str, prefix) ==
    Len(str) >= Len(prefix) /\ SubSeq(str, 1, Len(prefix)) = prefix

includes(str, ch) == \E i \in DOMAIN str : str[i] = ch

\* 'http://' and 'https://'
http == <<"h", "t", "t", "p", ":", "/", "/">>
https == <<"h", "t", "t", "p", "s", ":", "/", "/">>

\* Variant of WithScheme that takes only 'https://' for a scheme
WithScheme_HttpsOnly(final) ==
    IF ~startsWith(final, https) THEN https \o final ELSE final

\* if (!final.startsWith('http://') && !final.startsWith('https://'))
\*     final = `https://${final}`
WithScheme(final) ==
    IF ~startsWith(final, http) /\ ~startsWith(final, https)
    THEN https \o final
    ELSE final

\* Variant of separator that always starts a query string
separator_AlwaysQuery(final) == "?"

\* const separator = final.includes('?') ? '&' : '?'
separator(final) == IF includes(final, "?") THEN "&" ELSE "?"

\* `${final}${separator}_uid=${sessionId}&_cb=${Date.now()}`
WithSignature(final, sessionId, now) ==
    final \o <<separator(final)>> \o <<"_", "u", "i", "d", "=">> \o <<sessionId>>
          \o <<"&", "_", "c", "b", "=">> \o <<now>>

\* getDisplayUrl(urlStr, sessionId) in a render whose ghostMode is `ghost`
\* and in which Date.now() returns `now`
getDisplayUrl(urlStr, sessionId, ghost, now) ==
    IF urlStr = <<>>
    THEN <<>>
    ELSE IF ghost
         THEN WithSignature(WithScheme(trim(urlStr)), sessionId, now)
         ELSE WithScheme(trim(urlStr))

\* const base = "allow-scripts allow-forms allow-popups allow-modals
\*               allow-popups-to-escape-sandbox allow-downloads"
base ==
    <<"allow-scripts", "allow-forms", "allow-popups", "allow-modals",
      "allow-popups-to-escape-sandbox", "allow-downloads">>

\* Variant of getSandboxRules that grants allow-same-origin in ghost mode too
getSandboxRules_AlwaysSameOrigin(ghost) == base \o <<"allow-same-origin">>

\* getSandboxRules() in a render whose ghostMode is `ghost`: the tokens of the
\* sandbox attribute
getSandboxRules(ghost) ==
    IF ghost THEN base ELSE base \o <<"allow-same-origin">>

\* The strings over the given characters of length at most n
RECURSIVE Strings(_, _)
Strings(chars, n) ==
    IF n = 0 THEN {<<>>}
    ELSE Strings(chars, n - 1)
         \cup {str \o <<ch>> : str \in Strings(chars, n - 1), ch \in chars}

\* The URLs a frame is rendered with: white space, a scheme or the start of
\* one, a body, white space
UrlStrs ==
    {lead \o scheme \o body \o trail :
        lead \in {<<>>, <<" ">>},
        scheme \in {<<>>, http, https, <<"h", "t", "t", "p", ":">>},
        body \in Strings({"a", "?", " "}, MaxBody),
        trail \in {<<>>, <<" ">>}}

\* Session ids as generateSessionId returns them, and values of Date.now()
SessionIds == {"abc123", "k9x2b7"}
Timestamps == {"1700000000000", "1700000000001"}

\* A grid that is about to render the <iframe> of one frame, in either mode:
\* in ghost mode the ghost mode effect has run
InitRender ==
    /\ count = 2
    /\ masterUrl = ""
    /\ ghostMode \in BOOLEAN
    /\ sidGen = IF ghostMode THEN 1 ELSE 0
    /\ frames = IF ghostMode
                THEN [i \in 1..2 |-> GhostFrame(InitialFrames(2, 0)[i],
                                                generateSessionId(1, i))]
                ELSE InitialFrames(2, 0)
    /\ isSyncing = TRUE
    /\ loadingDelay = 800
    /\ timeoutsRef = <<>>
    /\ timers = {}
    /\ elapsed = 0
    /\ lastCall = NoCall
    /\ mounted = TRUE
    /\ iframe \in {Element(urlStr, sessionId, now) :
                      urlStr \in UrlStrs, sessionId \in SessionIds, now \in Timestamps}

\* <iframe src={getDisplayUrl(frame.currentUrl, frame.sessionId)}
\*         sandbox={getSandboxRules()} />
RenderIframe ==
    /\ mounted
    /\ ~iframe.rendered
    /\ iframe' = [iframe EXCEPT
                     !.src = getDisplayUrl(iframe.urlStr, iframe.sessionId,
                                           ghostMode, iframe.now),
                     !.sandbox = getSandboxRules(ghostMode),
                     !.rendered = TRUE]
    /\ UNCHANGED <<count, masterUrl, frames, isSyncing, ghostMode, loadingDelay,
                   timeoutsRef, timers, elapsed, sidGen, lastCall, mounted>>

NextRender == RenderIframe

SpecRender == InitRender /\ [][NextRender]_vars

----------------------------------------------------------------------------
\* Properties

\* The ids of the frames that satisfy P
IdsWhere(P(_)) == {frames[i].id : i \in {j \in DOMAIN frames : P(frames[j])}}

\* The ids a list of handles targets, and whether it lists them in ascending
\* order without repetition
TargetsOf(ref) == {ref[k].frameId : k \in DOMAIN ref}
Ascending(ref) ==
    \A j, k \in DOMAIN ref : j < k => ref[j].frameId < ref[k].frameId

\* The last step called scheduleFrames: it ran handleRefreshAll, or the master
\* URL effect with isSyncing set and a non-empty masterUrl
CalledScheduleFrames ==
    \/ lastCall.by = "handleRefreshAll"
    \/ /\ lastCall.by \in {"setMasterUrl", "setIsSyncing", "setLoadingDelay"}
       /\ masterUrl # ""

\* C1: every timeout that is pending was set by the most recent scheduleFrames
\* call and its handle is in timeoutsRef, so the next call or cleanup clears
\* it: no timeout of an earlier batch is left to fire.
C1_Supersession == \A t \in timers : t.age = 0 /\ t \in Range(timeoutsRef)

\* A scheduleFrames call has just cleared timeouts that were pending and has
\* set a new batch
C1_Witness ==
    /\ lastCall.by = "handleRefreshAll"
    /\ lastCall.cancelled
    /\ timers # {}

\* C2: a scheduleFrames call sets the timeout of position i to i * loadingDelay;
\* the timeouts of a batch fire in list order, each at its due time.
C2_StaggerOrder ==
    /\ [](\A j, k \in DOMAIN timeoutsRef :
              (j < k /\ timeoutsRef[j] \in timers) => timeoutsRef[k] \in timers)
    /\ [][/\ CalledScheduleFrames'
             => \A k \in DOMAIN timeoutsRef' :
                    /\ timeoutsRef'[k].due = (k - 1) * loadingDelay'
                    /\ timeoutsRef'[k] \in timers'
          /\ \A t \in timers : Fire(t) =>
                    /\ elapsed' = t.index * t.delay
                    /\ \A u \in timers : u.index >= t.index]_vars

\* A batch of two has fired completely: frame 0 at 0, frame 1 one delay later
C2_Witness ==
    /\ Len(timeoutsRef) = 2
    /\ timers = {}
    /\ elapsed = timeoutsRef[2].delay
    /\ \A i \in DOMAIN frames : frames[i].status = "active" /\ frames[i].key = 1

\* C3: a timeout that fires for a frame whose status is not 'scheduled' changes
\* nothing of that frame.
C3_StaleFiringIsNoOp ==
    [][\A t \in timers : Fire(t) =>
           \A i \in DOMAIN frames :
               (frames[i].id = t.frameId /\ frames[i].status # "scheduled")
               => frames'[i] = frames[i]]_vars

\* C4: a change of masterUrl to a non-empty url with isSyncing set gives every
\* unlocked frame that url and the status 'scheduled', and the batch it sets
\* targets the unlocked frames, each once, in ascending order.
C4_MasterSync ==
    [][\A u \in Urls : (SetMasterUrl(u) /\ isSyncing /\ u # "") =>
           /\ \A i \in DOMAIN frames : ~frames[i].isLocked =>
                  frames'[i].currentUrl = u /\ frames'[i].status = "scheduled"
           /\ TargetsOf(timeoutsRef') = IdsWhere(IsUnlocked)
           /\ Ascending(timeoutsRef')
           /\ timers' = Range(timeoutsRef')]_vars

\* The master URL effect has just synchronised a pool with a locked and an
\* unlocked frame
C4_Witness ==
    /\ lastCall.by = "setMasterUrl"
    /\ isSyncing /\ masterUrl # ""
    /\ \E i, j \in DOMAIN frames :
           /\ frames[i].isLocked
           /\ ~frames[j].isLocked /\ frames[j].status = "scheduled"
           /\ frames[j].currentUrl = masterUrl
           /\ TargetsOf(timeoutsRef) = {frames[j].id}

\* C5: a change of masterUrl leaves every locked frame as it is and sets no
\* timeout for it, and a timeout that fires changes only the frame it targets.
C5_LockedUntouched ==
    [][/\ \A u \in Urls : SetMasterUrl(u) =>
              \A i \in DOMAIN frames : frames[i].isLocked =>
                  /\ frames'[i] = frames[i]
                  /\ (isSyncing /\ u # "") =>
                         \A t \in timers' : t.frameId # frames[i].id
       /\ \A t \in timers : Fire(t) =>
              \A i \in DOMAIN frames :
                  frames[i].id # t.frameId => frames'[i] = frames[i]]_vars

\* The batch of a synchronisation has fired and activated the unlocked frame,
\* next to a locked frame that still is idle with no URL
C5_Witness ==
    /\ masterUrl # "" /\ timers = {} /\ Len(timeoutsRef) = 1
    /\ \E i, j \in DOMAIN frames :
           /\ frames[i].isLocked /\ frames[i].status = "idle"
           /\ frames[i].currentUrl = "" /\ frames[i].key = 0
           /\ ~frames[j].isLocked /\ frames[j].status = "active"
           /\ frames[j].currentUrl = masterUrl /\ frames[j].key = 1
           /\ timeoutsRef[1].frameId = frames[j].id

\* C6: a change of masterUrl to the empty string makes every unlocked frame
\* idle with an empty URL, leaves the locked frames as they are, and neither
\* sets nor clears a timeout, whatever isSyncing is.
C6_EmptyMasterReset ==
    [][SetMasterUrl("") =>
           /\ \A i \in DOMAIN frames :
                  IF frames[i].isLocked
                  THEN frames'[i] = frames[i]
                  ELSE frames'[i].currentUrl = "" /\ frames'[i].status = "idle"
           /\ timers' = timers
           /\ timeoutsRef' = timeoutsRef]_vars

\* masterUrl has just become empty with isSyncing off, while a timeout is
\* pending: an unlocked frame was reset, a locked frame kept its URL
C6_Witness ==
    /\ lastCall.by = "setMasterUrl"
    /\ masterUrl = "" /\ ~isSyncing
    /\ timers # {}
    /\ \E i, j \in DOMAIN frames :
           /\ ~frames[i].isLocked /\ frames[i].status = "idle" /\ frames[i].key > 0
           /\ frames[j].isLocked /\ frames[j].currentUrl # ""

\* C7 as stated: toggling isSyncing changes no frame and no timeout.
C7_SyncTogglePure ==
    [][SetIsSyncing =>
           /\ \A i \in DOMAIN frames :
                  /\ frames'[i].currentUrl = frames[i].currentUrl
                  /\ frames'[i].status = frames[i].status
                  /\ frames'[i].key = frames[i].key
           /\ timers' = timers
           /\ timeoutsRef' = timeoutsRef]_vars

\* C7 as amended: toggling isSyncing runs the master URL effect again.  Turned
\* on with a non-empty masterUrl it synchronises the unlocked frames and sets a
\* new batch for them; with an empty masterUrl it resets the unlocked frames
\* and leaves the timeouts; turned off with a non-empty masterUrl it changes
\* only the flag.  It never changes a locked frame or a key.
C7_SyncToggleResyncs ==
    [][SetIsSyncing =>
           /\ isSyncing' = ~isSyncing
           /\ \A i \in DOMAIN frames :
                  /\ frames'[i].key = frames[i].key
                  /\ frames[i].isLocked => frames'[i] = frames[i]
           /\ (~isSyncing /\ masterUrl # "") =>
                  /\ \A i \in DOMAIN frames : ~frames[i].isLocked =>
                         /\ frames'[i].currentUrl = masterUrl
                         /\ frames'[i].status = "scheduled"
                  /\ TargetsOf(timeoutsRef') = IdsWhere(IsUnlocked)
                  /\ timers' = Range(timeoutsRef')
           /\ masterUrl = "" =>
                  /\ \A i \in DOMAIN frames : ~frames[i].isLocked =>
                         /\ frames'[i].currentUrl = ""
                         /\ frames'[i].status = "idle"
                  /\ timers' = timers /\ timeoutsRef' = timeoutsRef
           /\ (isSyncing /\ masterUrl # "") =>
                  /\ frames' = frames
                  /\ timers' = timers /\ timeoutsRef' = timeoutsRef]_vars

\* isSyncing has just been turned on again: the effect has cleared the
\* timeouts that were pending and has set a batch for the unlocked frames
C7_Witness ==
    /\ lastCall.by = "setIsSyncing"
    /\ lastCall.cancelled
    /\ isSyncing /\ masterUrl # ""
    /\ timers # {}
    /\ \E i \in DOMAIN frames : frames[i].status = "scheduled" /\ frames[i].key = 1

\* C8 as stated: handleUrlChange on a frame of the pool sets its URL, locks it,
\* makes it active and increments its key.
C8_EditBumpsKey ==
    [][\A id \in Ids, u \in Urls : handleUrlChange(id, u) =>
           \A i \in DOMAIN frames : frames[i].id = id =>
               /\ frames'[i].currentUrl = u
               /\ frames'[i].isLocked
               /\ frames'[i].status = "active"
               /\ frames'[i].key = frames[i].key + 1]_vars

\* C8 as amended: handleUrlChange on a frame of the pool sets its URL, locks it
\* and makes it active, whatever its status and lock were; its key stays as it
\* is.
C8_EditKeepsKey ==
    [][\A id \in Ids, u \in Urls : handleUrlChange(id, u) =>
           \A i \in DOMAIN frames : frames[i].id = id =>
               /\ frames'[i].currentUrl = u
               /\ frames'[i].isLocked
               /\ frames'[i].status = "active"
               /\ frames'[i].key = frames[i].key
               /\ frames'[i].id = frames[i].id
               /\ frames'[i].sessionId = frames[i].sessionId]_vars

\* A frame is active with key 0: no timeout has fired for it, its URL was edited
C8_Witness ==
    \E i \in DOMAIN frames :
        /\ frames[i].status = "active" /\ frames[i].key = 0
        /\ frames[i].isLocked /\ frames[i].currentUrl = "a.com"

\* C9: handleUrlChange changes no other frame, and no timeout or handle of
\* another frame.
C9_EditBypassesScheduler ==
    [][\A id \in Ids, u \in Urls : handleUrlChange(id, u) =>
           /\ \A i \in DOMAIN frames : frames[i].id # id => frames'[i] = frames[i]
           /\ {t \in timers' : t.frameId # id} = {t \in timers : t.frameId # id}
           /\ Len(timeoutsRef') = Len(timeoutsRef)
           /\ \A k \in DOMAIN timeoutsRef :
                  timeoutsRef[k].frameId # id => timeoutsRef'[k] = timeoutsRef[k]
           /\ elapsed' = elapsed]_vars

\* Frame 0 was edited while the batch for frames 0 and 1 was pending: the
\* timeout of frame 1 is still pending and frame 1 still is scheduled
C9_Witness ==
    /\ count = 2
    /\ frames[1].status = "active" /\ frames[1].key = 0 /\ frames[1].isLocked
    /\ frames[2].status = "scheduled"
    /\ \E t \in timers : t.frameId = 1 /\ t.index = 1 /\ t.age = 0

Mapped(fs, id, Op(_)) == [i \in DOMAIN fs |-> IF fs[i].id = id THEN Op(fs[i]) ELSE fs[i]]

\* The ids of the pool
PoolIds == {frames[i].id : i \in DOMAIN frames}

\* What the component holds: props, state, refs and the timeouts it has set
component == <<count, masterUrl, frames, isSyncing, ghostMode, loadingDelay,
               timeoutsRef, timers, elapsed, sidGen>>

\* C11: handleRefresh on a frame of the pool increments its key and leaves its
\* status, URL and lock, every other frame and every timeout as they are.
C11_RefreshOne ==
    [][\A id \in Ids : handleRefresh(id) =>
           /\ \A i \in DOMAIN frames :
                  IF frames[i].id = id
                  THEN /\ frames'[i].key = frames[i].key + 1
                       /\ frames'[i].status = frames[i].status
                       /\ frames'[i].currentUrl = frames[i].currentUrl
                       /\ frames'[i].isLocked = frames[i].isLocked
                       /\ frames'[i].id = frames[i].id
                  ELSE frames'[i] = frames[i]
           /\ UNCHANGED <<timers, timeoutsRef, elapsed>>]_vars

\* A frame was refreshed while its activation is pending: it still is scheduled
C11_Witness ==
    /\ ~ghostMode /\ sidGen = 0
    /\ \E i \in DOMAIN frames :
           /\ frames[i].key = 1 /\ frames[i].status = "scheduled"
           /\ frames[i].sessionId = generateSessionId(0, i)
           /\ \E t \in timers : t.frameId = frames[i].id

\* C12: in ghost mode, handleRefresh on a frame of the pool gives it a session
\* id that differs from the one it had.
C12_RefreshOneNewIdentity ==
    [][\A id \in Ids : (handleRefresh(id) /\ ghostMode) =>
           \A i \in DOMAIN frames :
               frames[i].id = id => frames'[i].sessionId # frames[i].sessionId]_vars

\* C13: turning ghost mode on regenerates every session id and increments
\* every key; turning it off changes no frame; in both cases no status, URL or
\* lock changes and no timeout is set or cleared.
C13_SetIsolationMode ==
    [][SetGhostMode =>
           /\ ghostMode' = ~ghostMode
           /\ \A i \in DOMAIN frames :
                  /\ frames'[i].status = frames[i].status
                  /\ frames'[i].currentUrl = frames[i].currentUrl
                  /\ frames'[i].isLocked = frames[i].isLocked
                  /\ frames'[i].id = frames[i].id
           /\ UNCHANGED <<timers, timeoutsRef, elapsed>>
           /\ IF ghostMode'
              THEN \A i \in DOMAIN frames :
                       /\ frames'[i].key = frames[i].key + 1
                       /\ \A j \in DOMAIN frames :
                              frames'[i].sessionId # frames[j].sessionId
              ELSE frames' = frames]_vars

\* Ghost mode was turned on while a batch is pending: every frame has a new
\* session id and key 1, and still is scheduled
C13_Witness ==
    /\ ghostMode /\ sidGen = 1 /\ count = 2
    /\ timers # {}
    /\ \A i \in DOMAIN frames :
           /\ frames[i].key = 1 /\ frames[i].status = "scheduled"
           /\ frames[i].sessionId = generateSessionId(1, i)

\* C14: toggleLock on a frame of the pool flips its lock and changes nothing
\* else, and a second toggleLock on it restores the frames.
C14_ToggleLock ==
    [][\A id \in Ids : toggleLock(id) =>
           /\ \A i \in DOMAIN frames :
                  frames'[i] = IF frames[i].id = id
                               THEN [frames[i] EXCEPT !.isLocked = ~frames[i].isLocked]
                               ELSE frames[i]
           /\ Mapped(frames', id, LockToggled) = frames
           /\ UNCHANGED <<count, masterUrl, isSyncing, ghostMode, loadingDelay,
                          timers, timeoutsRef, elapsed, sidGen>>]_vars

\* An idle frame with no URL is locked: only toggleLock locks without activating
C14_Witness ==
    \E i \in DOMAIN frames :
        /\ frames[i].isLocked /\ frames[i].status = "idle"
        /\ frames[i].currentUrl = "" /\ frames[i].key = 0

\* C15: the initialize effect builds count frames with the ids 0..count-1 in
\* order, idle, unlocked, with no URL and pairwise distinct session ids; in
\* every state the ids of the pool are 0..count-1 in order.
C15_Initialize ==
    /\ [](/\ Len(frames) = count
          /\ \A i \in DOMAIN frames : frames[i].id = i - 1)
    /\ [][\A n \in Counts : SetCount(n) =>
              /\ Len(frames') = n
              /\ \A i \in DOMAIN frames' :
                     /\ frames'[i].id = i - 1
                     /\ frames'[i].status = "idle"
                     /\ ~frames'[i].isLocked
                     /\ frames'[i].currentUrl = ""
                     /\ \A j \in DOMAIN frames' :
                            i # j => frames'[i].sessionId # frames'[j].sessionId]_vars

\* The pool has just been initialized again, with one frame
C15_Witness ==
    /\ lastCall.by = "initialize"
    /\ count = 1 /\ Len(frames) = 1
    /\ frames[1].id = 0 /\ frames[1].status = "idle"

\* No frame of the pool is scheduled or active
AllIdle == \A i \in DOMAIN frames : frames[i].status = "idle"

\* The pool as the initialize effect leaves it: idle frames with no URL and no
\* timeout pending
FreshPool ==
    /\ AllIdle
    /\ \A i \in DOMAIN frames : frames[i].currentUrl = ""
    /\ timers = {}

\* C16 as stated: the initialize effect leaves no timeout pending, and the
\* frames of a fresh pool stay idle until masterUrl changes, handleRefreshAll
\* runs or handleUrlChange runs.
C16_ReinitializeCancels ==
    [][/\ \A n \in Counts : SetCount(n) => (timers' = {} /\ FreshPool')
       /\ (FreshPool /\ ~AllIdle') =>
              \/ \E u \in Urls : SetMasterUrl(u)
              \/ handleRefreshAll
              \/ \E id \in Ids, u \in Urls : handleUrlChange(id, u)]_vars

\* C16 as amended: the initialize effect leaves no timeout pending, and the
\* frames of a fresh pool stay idle until masterUrl changes, isSyncing is
\* toggled, loadingDelay changes, handleRefreshAll runs or handleUrlChange runs.
C16_ReinitializeCancelsAmended ==
    [][/\ \A n \in Counts : SetCount(n) =>
              (timers' = {} /\ timeoutsRef' = <<>> /\ FreshPool')
       /\ (FreshPool /\ ~AllIdle') =>
              \/ \E u \in Urls : SetMasterUrl(u)
              \/ SetIsSyncing
              \/ \E d \in Delays : SetLoadingDelay(d)
              \/ handleRefreshAll
              \/ \E id \in Ids, u \in Urls : handleUrlChange(id, u)]_vars

\* The initialize effect has just cleared timeouts that were pending
C16_Witness ==
    /\ lastCall.by = "initialize"
    /\ lastCall.cancelled
    /\ timers = {} /\ AllIdle

\* C17: after the cleanup on unmount no timeout is pending, so none fires, and
\* no frame changes.
C17_CancelAll ==
    /\ [](~mounted => timers = {})
    /\ [][/\ Unmount => (timers' = {} /\ frames' = frames)
          /\ ~mounted => UNCHANGED <<frames, timers>>]_vars

\* The component has unmounted while a batch was pending: its frames still are
\* scheduled and no timeout is left
C17_Witness ==
    /\ ~mounted
    /\ lastCall.by = "unmount" /\ lastCall.cancelled
    /\ timers = {}
    /\ \E i \in DOMAIN frames : frames[i].status = "scheduled"

\* C18: while the pool is not initialized again, no step decreases a key.
C18_GenerationMonotonic ==
    [][count' = count =>
           \A i \in DOMAIN frames : frames'[i].key >= frames[i].key]_vars

\* A frame that a timeout activated was edited afterwards and kept its key
C18_Witness ==
    /\ masterUrl # ""
    /\ \E i \in DOMAIN frames :
           /\ frames[i].key = MaxKey /\ frames[i].isLocked
           /\ frames[i].status = "active" /\ frames[i].currentUrl = ""

\* C19 as stated: a step that changes the status of a frame takes it from idle
\* to scheduled, from scheduled to active or from active to scheduled, or it
\* is the initialize effect making it idle.
C19_StatusTransitions ==
    [][\A i \in DOMAIN frames \cap DOMAIN frames' :
           frames'[i].status # frames[i].status =>
               IF count' # count
               THEN frames'[i].status = "idle"
               ELSE <<frames[i].status, frames'[i].status>> \in
                        {<<"idle", "scheduled">>, <<"scheduled", "active">>,
                         <<"active", "scheduled">>}]_vars

\* C19 as amended: a status becomes 'scheduled' only in the master URL effect
\* or handleRefreshAll; it becomes 'active' only when a timeout for the frame
\* fires or handleUrlChange edits the frame, whatever it was; it becomes 'idle'
\* only for an unlocked frame when the master URL effect runs with an empty
\* masterUrl, or in the initialize effect.
C19_StatusChangesByOperation ==
    [][\A i \in DOMAIN frames \cap DOMAIN frames' :
           frames'[i].status # frames[i].status =>
               IF count' # count
               THEN frames'[i].status = "idle"
               ELSE CASE frames'[i].status = "scheduled" ->
                            \/ \E u \in Urls : SetMasterUrl(u)
                            \/ SetIsSyncing
                            \/ \E d \in Delays : SetLoadingDelay(d)
                            \/ handleRefreshAll
                      [] frames'[i].status = "active" ->
                            \/ \E t \in timers : t.frameId = frames[i].id /\ Fire(t)
                            \/ \E u \in Urls : handleUrlChange(frames[i].id, u)
                      [] frames'[i].status = "idle" ->
                            /\ masterUrl' = "" /\ ~frames[i].isLocked
                            /\ \/ SetMasterUrl("")
                               \/ SetIsSyncing
                               \/ \E d \in Delays : SetLoadingDelay(d)]_vars

\* The sync toggle has just run the effect with an empty masterUrl: a frame
\* whose timeout still is pending is idle
C19_Witness ==
    /\ lastCall.by = "setIsSyncing"
    /\ masterUrl = ""
    /\ \E i \in DOMAIN frames :
           /\ frames[i].status = "idle" /\ ~frames[i].isLocked
           /\ \E t \in timers : t.frameId = frames[i].id

\* C20: handleUrlChange, toggleLock and handleRefresh called with an id that
\* no frame of the pool has change nothing the component holds.
C20_InvalidIdNoOp ==
    [][\A id \in Ids \ PoolIds :
           /\ handleRefresh(id) => UNCHANGED component
           /\ toggleLock(id) => UNCHANGED component
           /\ \A u \in Urls : handleUrlChange(id, u) => UNCHANGED component]_vars

\* In a pool of one frame with a timeout pending, the last step was a handler
\* that set no timeout and edited nothing
C20_Witness ==
    /\ mounted /\ count = 1 /\ ~ghostMode
    /\ lastCall = NoCall
    /\ timers # {}
    /\ frames[1].status = "scheduled" /\ ~frames[1].isLocked /\ frames[1].key = 0

\* C21: a scheduleFrames call with an empty list clears every timeout that is
\* pending and sets none, and changes no status, URL, lock or key; whenever
\* the list of the latest call is empty, no timeout is pending.
C21_ScheduleEmpty ==
    /\ [](timeoutsRef = <<>> => timers = {})
    /\ [][/\ (handleRefreshAll /\ framesToRefresh(frames) = <<>>) =>
                 /\ timers' = {} /\ timeoutsRef' = <<>>
                 /\ \A i \in DOMAIN frames :
                        frames'[i] = [frames[i] EXCEPT !.sessionId = frames'[i].sessionId]
          /\ \A u \in Urls :
                 (SetMasterUrl(u) /\ isSyncing /\ u # "" /\ unlockedIds(frames) = <<>>) =>
                     /\ timers' = {} /\ timeoutsRef' = <<>>
                     /\ frames' = frames]_vars

\* handleRefreshAll has just found no frame to refresh and has cleared the
\* timeouts that were pending
C21_Witness ==
    /\ lastCall.by = "handleRefreshAll"
    /\ lastCall.cancelled
    /\ timeoutsRef = <<>> /\ timers = {}

\* C22: getDisplayUrl returns the empty string for every urlStr that is empty
\* after trimming, in either mode.
C22_BlankUrlRendersEmpty ==
    (iframe.rendered /\ trim(iframe.urlStr) = <<>>) => iframe.src = <<>>

\* C23: for a urlStr that is not empty after trimming, the src starts with the
\* trimmed urlStr if that begins with 'http://' or 'https://' and with
\* 'https://' and the trimmed urlStr if not; out of ghost mode it is that string.
C23_SchemeNormalization ==
    (iframe.rendered /\ trim(iframe.urlStr) # <<>>) =>
        LET trimmed == trim(iframe.urlStr)
            HasScheme == \/ Len(trimmed) >= 7 /\ SubSeq(trimmed, 1, 7) = http
                         \/ Len(trimmed) >= 8 /\ SubSeq(trimmed, 1, 8) = https
            normalized == IF HasScheme THEN trimmed ELSE https \o trimmed
        IN  /\ startsWith(iframe.src, normalized)
            /\ ~ghostMode => iframe.src = normalized

\* ' a' was rendered out of ghost mode as 'https://a'
C23_Witness ==
    /\ iframe.rendered /\ ~ghostMode
    /\ iframe.urlStr = <<" ", "a">>
    /\ iframe.src = https \o <<"a">>

\* C24: in ghost mode the src of a urlStr that is not empty after trimming is
\* the normalized URL, then '?' if the normalized URL has no '?' and '&' if it
\* has one, then '_uid=<sessionId>&_cb=<Date.now()>'; out of ghost mode
\* nothing is appended.
C24_SignatureBlock ==
    (iframe.rendered /\ trim(iframe.urlStr) # <<>>) =>
        LET normalized == WithScheme(trim(iframe.urlStr))
            HasQuery == \E k \in 1..Len(normalized) : normalized[k] = "?"
        IN  IF ghostMode
            THEN iframe.src =
                     normalized \o <<IF HasQuery THEN "&" ELSE "?">>
                                \o <<"_", "u", "i", "d", "=", iframe.sessionId>>
                                \o <<"&", "_", "c", "b", "=", iframe.now>>
            ELSE iframe.src = normalized

\* 'a?' was rendered in ghost mode: the signature is appended with '&'
C24_Witness ==
    /\ iframe.rendered /\ ghostMode
    /\ iframe.urlStr = <<"a", "?">>
    /\ startsWith(iframe.src, https \o <<"a", "?", "&", "_", "u", "i", "d", "=">>)

\* C25 as stated: the sandbox grants allow-scripts, allow-forms, allow-popups,
\* allow-popups-to-escape-sandbox and allow-downloads in either mode, and
\* allow-same-origin out of ghost mode only; it grants nothing else and
\* nothing twice.
C25_CapabilityPolicy ==
    iframe.rendered =>
        /\ Range(iframe.sandbox) =
               {"allow-scripts", "allow-forms", "allow-popups",
                "allow-popups-to-escape-sandbox", "allow-downloads"}
               \cup (IF ghostMode THEN {} ELSE {"allow-same-origin"})
        /\ Cardinality(Range(iframe.sandbox)) = Len(iframe.sandbox)

\* C25 as amended: the sandbox grants allow-scripts, allow-forms, allow-popups,
\* allow-modals, allow-popups-to-escape-sandbox and allow-downloads in either
\* mode, and allow-same-origin out of ghost mode only; it grants nothing else
\* and nothing twice.
C25_CapabilityPolicyWithModals ==
    iframe.rendered =>
        /\ Range(iframe.sandbox) =
               {"allow-scripts", "allow-forms", "allow-popups", "allow-modals",
                "allow-popups-to-escape-sandbox", "allow-downloads"}
               \cup (IF ghostMode THEN {} ELSE {"allow-same-origin"})
        /\ Cardinality(Range(iframe.sandbox)) = Len(iframe.sandbox)

\* An <iframe> was rendered in ghost mode: no allow-same-origin, allow-modals
C25_Witness ==
    /\ iframe.rendered /\ ghostMode
    /\ "allow-same-origin" \notin Range(iframe.sandbox)
    /\ "allow-modals" \in Range(iframe.sandbox)

\* C26 as stated: a step that changes the session id of a frame of the pool
\* increments its key.
C26_IdentityChangeBumpsGeneration ==
    [][count' = count =>
           \A i \in DOMAIN frames :
               frames'[i].sessionId # frames[i].sessionId =>
                   frames'[i].key = frames[i].key + 1]_vars

\* C26 as amended: a step that changes the session id of a frame of the pool
\* is the ghost mode effect turning ghost mode on, which increments the key,
\* or handleRefreshAll in ghost mode, which leaves the key as it is.
C26_IdentityChange ==
    [][count' = count =>
           \A i \in DOMAIN frames :
               frames'[i].sessionId # frames[i].sessionId =>
                   \/ SetGhostMode /\ ghostMode' /\ frames'[i].key = frames[i].key + 1
                   \/ handleRefreshAll /\ ghostMode /\ frames'[i].key = frames[i].key]_vars

\* handleRefreshAll has just regenerated the session ids in ghost mode: the
\* keys are the ones the ghost mode effect left
C26_Witness ==
    /\ lastCall.by = "handleRefreshAll"
    /\ ghostMode /\ sidGen = 0
    /\ \A i \in DOMAIN frames :
           frames[i].key = 1 /\ frames[i].sessionId = generateSessionId(0, i)

C28_SameUrlResyncs ==
    [][\A u \in Urls : (SetMasterUrlSame(u) /\ isSyncing /\ u # "") =>
           \A i \in DOMAIN frames : ~frames[i].isLocked =>
               frames'[i].currentUrl = u /\ frames'[i].status = "scheduled"]_vars

\* C29: while masterUrl is empty, an unlocked frame that is idle with no URL
\* stays so in every step but a change of masterUrl, handleRefreshAll,
\* handleUrlChange on it and the initialize effect.
C29_ResetStaysIdle ==
    [][count' = count =>
           \A i \in DOMAIN frames :
               (/\ masterUrl = ""
                /\ ~frames[i].isLocked
                /\ frames[i].status = "idle" /\ frames[i].currentUrl = ""
                /\ (frames'[i].status # "idle" \/ frames'[i].currentUrl # ""))
               => \/ \E u \in Urls : SetMasterUrl(u)
                  \/ handleRefreshAll
                  \/ \E u \in Urls : handleUrlChange(frames[i].id, u)]_vars

\* C30: a frame that is 'scheduled' has a timeout pending for it (if it has
\* none and no further call is made, it stays 'scheduled' for ever).
C30_ScheduledHasActivation ==
    mounted =>
        \A i \in DOMAIN frames :
            frames[i].status = "scheduled" =>
                \E t \in timers : t.frameId = frames[i].id

\* C31: in every reachable state a frame whose status is 'idle' has an empty
\* URL.
C31_IdleHasNoUrl ==
    \A i \in DOMAIN frames : frames[i].status = "idle" => frames[i].currentUrl = ""

\* A frame that was activated has been reset by an empty masterUrl
C31_Witness ==
    /\ lastCall.by = "setMasterUrl"
    /\ masterUrl = "" /\ ~ghostMode
    /\ \E i \in DOMAIN frames :
           /\ frames[i].status = "idle" /\ frames[i].currentUrl = ""
           /\ frames[i].key = 1

\* C32: no two pending timeouts are for the same frame, and a timeout that
\* fires increments the key of its frame by exactly 1, changes no other frame
\* and is pending no longer.
C32_OneActivationEach ==
    /\ [](\A t, u \in timers : t.frameId = u.frameId => t = u)
    /\ [][\A t \in timers : Fire(t) =>
              /\ timers' = timers \ {t}
              /\ \A i \in DOMAIN frames :
                     IF frames[i].id = t.frameId
                     THEN frames'[i].key = frames[i].key + 1
                     ELSE frames'[i] = frames[i]]_vars

\* A batch for both frames has run to completion: each key went from 0 to 1
C32_Witness ==
    /\ lastCall = NoCall
    /\ ~ghostMode
    /\ timers = {} /\ Len(timeoutsRef) = 2
    /\ elapsed > 0
    /\ \A i \in DOMAIN frames : frames[i].status = "active" /\ frames[i].key = 1

\* C33 as stated: a change of loadingDelay changes no frame and leaves the
\* pending timeouts as they are.
C33_DelayChangePure ==
    [][\A d \in Delays : SetLoadingDelay(d) =>
           /\ frames' = frames
           /\ timers' = timers /\ timeoutsRef' = timeoutsRef]_vars

\* C33 as amended: a change of loadingDelay runs the master URL effect again.
\* With isSyncing set and a non-empty masterUrl it synchronises the unlocked
\* frames and sets a new batch for them with the new delay; with an empty
\* masterUrl it resets the unlocked frames and leaves the timeouts; with
\* isSyncing off and a non-empty masterUrl it changes only the delay.  It
\* never changes a locked frame or a key.
C33_DelayChangeResyncs ==
    [][\A d \in Delays : SetLoadingDelay(d) =>
           /\ loadingDelay' = d
           /\ \A i \in DOMAIN frames :
                  /\ frames'[i].key = frames[i].key
                  /\ frames[i].isLocked => frames'[i] = frames[i]
           /\ (isSyncing /\ masterUrl # "") =>
                  /\ \A i \in DOMAIN frames : ~frames[i].isLocked =>
                         /\ frames'[i].currentUrl = masterUrl
                         /\ frames'[i].status = "scheduled"
                  /\ TargetsOf(timeoutsRef') = IdsWhere(IsUnlocked)
                  /\ timers' = Range(timeoutsRef')
                  /\ \A t \in timers' : t.due = t.index * d
           /\ masterUrl = "" =>
                  /\ \A i \in DOMAIN frames : ~frames[i].isLocked =>
                         /\ frames'[i].currentUrl = ""
                         /\ frames'[i].status = "idle"
                  /\ timers' = timers /\ timeoutsRef' = timeoutsRef
           /\ (~isSyncing /\ masterUrl # "") =>
                  /\ frames' = frames
                  /\ timers' = timers /\ timeoutsRef' = timeoutsRef]_vars

\* loadingDelay has just been changed to 200 while a batch was pending: the
\* batch was cleared and a new one is set, 200 ms apart
C33_Witness ==
    /\ lastCall.by = "setLoadingDelay"
    /\ lastCall.cancelled
    /\ loadingDelay = 200
    /\ \E t \in timers : t.due = 200

====
